---- MODULE Spec2Model ----
(***************************************************************************)
(* Model of the market-data pipeline: load_validate_data (data_loader.py), *)
(* the relational persister (sqlite_storage.py) and the columnar persister *)
(* (parquet_storage.py), with the three __main__ drivers.                  *)
(*                                                                         *)
(* A CSV file is a header (a set of column names as written) and a         *)
(* sequence of rows; a row maps each column name to the text of its cell,  *)
(* the empty text standing for a blank cell.  Parsed instants are minutes  *)
(* since midnight UTC of 2025-11-17, parsed numbers are hundredths.        *)
(***************************************************************************)
EXTENDS Integers, Sequences, FiniteSets, TLC

VARIABLES
    driver,         \* which __main__ runs: "data_loader", "sqlite", "parquet"
    market_file,    \* MARKET_DATA_FILE: [exists, header, rows]
    tickers_file,   \* TICKERS_FILE: [exists, rows]
    schema_file,    \* SCHEMA_FILE: TRUE when schema.sql exists
    pc,             \* position of the driver
    ret,            \* outcome of the last load_validate_data call
    db,             \* DB_FILE
    parquet_dir,    \* PARQUET_DIR
    out,            \* last line the driver printed
    runs            \* number of driver invocations started so far

vars == <<driver, market_file, tickers_file, schema_file, pc, ret, db,
          parquet_dir, out, runs>>

----------------------------------------------------------------------------
(* Bounds *)

MaxRows == 3
MaxRowsPartial == 1
MaxRuns == 2

----------------------------------------------------------------------------
(* Values *)

Blank == ""
NaN == -1
NaT == -1
Null == -1

T930Z == "2025-11-17T09:30:00Z"
T930P == "2025-11-17T09:30:00+00:00"
T931Z == "2025-11-17T09:31:00Z"
TBad  == "17/11/2025 9.30"

critical_cols == <<"timestamp", "symbol", "open", "high", "low", "close", "volume">>
numeric_cols == <<"open", "high", "low", "close", "volume">>

Range(s) == {s[i] : i \in DOMAIN s}

\* str.lower() on the column names that occur in the modelled headers
Lower(col) ==
    CASE col = "Timestamp" -> "timestamp"
      [] col = "Ticker" -> "ticker"
      [] col = "Symbol" -> "symbol"
      [] col = "Open" -> "open"
      [] col = "High" -> "high"
      [] col = "Low" -> "low"
      [] col = "Close" -> "close"
      [] col = "Volume" -> "volume"
      [] OTHER -> col

\* pd.to_datetime(format='ISO8601', utc=True) on one cell: "raise" stands for
\* the ValueError an unparseable text raises
ToDatetime(text) ==
    CASE text = Blank -> NaT
      [] text = T930Z -> 570
      [] text = T930P -> 570
      [] text = T931Z -> 571
      [] OTHER -> -2

TsRaises(text) == ToDatetime(text) = -2

\* pd.to_numeric(errors='coerce') on one cell
ToNumeric(text) ==
    CASE text = "271.45" -> 27145
      [] text = "272.07" -> 27207
      [] text = "270.77" -> 27077
      [] text = "270.88" -> 27088
      [] text = "271.12" -> 27112
      [] text = "1416" -> 141600
      [] text = "1416.0" -> 141600
      [] text = "1500" -> 150000
      [] OTHER -> NaN

\* Timestamp.astype(str) of a UTC instant
TsToStr(t) ==
    CASE t = 570 -> "2025-11-17 09:30:00+00:00"
      [] t = 571 -> "2025-11-17 09:31:00+00:00"
      [] OTHER -> "NaT"

\* Python's ordering of the symbol strings that occur in the model
SymbolOrd(s) ==
    CASE s = "AAPL" -> 1
      [] s = "MSFT" -> 2
      [] s = "TSLA" -> 3
      [] OTHER -> 0

----------------------------------------------------------------------------
(* Input files *)

Bar(ts, sym, close, vol) ==
    [timestamp |-> ts, symbol |-> sym, open |-> "271.45", high |-> "272.07",
     low |-> "270.77", close |-> close, volume |-> vol]

\* The bars a market file is made of: clean bars, and bars with one bad cell
CleanBars ==
    { Bar(T930Z, "AAPL", "270.88", "1416"),
      Bar(T930P, "AAPL", "271.12", "1416.0"),
      Bar(T931Z, "AAPL", "271.12", "1500"),
      Bar(T930Z, "MSFT", "270.88", "1500") }

BadBars ==
    { Bar(Blank, "AAPL", "270.88", "1416"),
      Bar(TBad, "AAPL", "270.88", "1416"),
      Bar(T930Z, Blank, "270.88", "1416"),
      Bar(T930Z, "AAPL", Blank, "1416"),
      Bar(T931Z, "MSFT", "271.12", "n/a") }

Bars == CleanBars \cup BadBars

HFixture == {"Timestamp", "Ticker", "Open", "High", "Low", "Close", "Volume"}
HLower == Range(critical_cols)
HBoth == HLower \cup {"Ticker"}
CompleteHeaders == {HFixture, HLower, HBoth}
\* headers that still lack a critical column after the ticker -> symbol rename
PartialHeaders ==
    { h \in SUBSET (HLower \cup {"ticker"}) :
        /\ h # {}
        /\ ~ ({"ticker", "symbol"} \subseteq h)
        /\ \E c \in HLower : c \notin h /\ ~ (c = "symbol" /\ "ticker" \in h) }

\* the text of column col in the file row that carries bar b
CellText(h, b, col) ==
    CASE Lower(col) = "ticker" ->
           IF \E c \in h : Lower(c) = "symbol" THEN "XNAS" ELSE b.symbol
      [] Lower(col) = "timestamp" -> b.timestamp
      [] Lower(col) = "symbol" -> b.symbol
      [] Lower(col) = "open" -> b.open
      [] Lower(col) = "high" -> b.high
      [] Lower(col) = "low" -> b.low
      [] Lower(col) = "close" -> b.close
      [] Lower(col) = "volume" -> b.volume

FileRow(h, b) == [col \in h |-> CellText(h, b, col)]

SeqsUpTo(S, n) == UNION { [1..k -> S] : k \in 0..n }

FilesOver(headers, bars, n) ==
    { [exists |-> TRUE, header |-> h,
       rows |-> [i \in DOMAIN bs |-> FileRow(h, bs[i])]] :
        h \in headers, bs \in SeqsUpTo(bars, n) }

NoMarketFile == [exists |-> FALSE, header |-> {}, rows |-> <<>>]

MarketFiles ==
    {NoMarketFile}
      \cup FilesOver(CompleteHeaders, Bars, MaxRows)
      \cup FilesOver(PartialHeaders,
                     {Bar(T930Z, "AAPL", "270.88", "1416"),
                      Bar(T930Z, "AAPL", Blank, "1416")}, MaxRowsPartial)

RegRow(id, sym) == [ticker_id |-> id, symbol |-> sym]

TickersCsv(rows) == [exists |-> TRUE, rows |-> rows]

NoTickersFile == [exists |-> FALSE, rows |-> <<>>]

TickerFiles ==
    { NoTickersFile,
      TickersCsv(<<>>),
      TickersCsv(<<RegRow(1, "AAPL")>>),
      TickersCsv(<<RegRow(2, "MSFT"), RegRow(1, "AAPL")>>),
      TickersCsv(<<RegRow(1, "AAPL"), RegRow(3, "TSLA")>>) }

----------------------------------------------------------------------------
(* data_loader.load_validate_data *)

MsgNoTickersFile == "[Errno 2] No such file or directory: 'tickers.csv'"
MsgNoMarketFile == "[Errno 2] No such file or directory: 'market_data_multi.csv'"
MsgTimeData == "time data doesn't match format"
MsgColumns == "Missing required columns in market_data_multi.csv"
MsgMissingData == "Missing critical OHLCV or timestamp data."
MsgDuplicates == "Duplicate data found."
MsgTickers == "Missing required tickers in market data."

NoFrame == [index |-> <<>>, columns |-> {}, rows |-> <<>>]

\* what a call leaves behind: the exception raised ("none" on return), its
\* message, what the call printed about the failure, and the returned frame
Outcome(exc, msg) ==
    [exc |-> exc, msg |-> msg, missing_cols |-> {}, missing_data |-> 0,
     duplicates |-> 0, missing_tickers |-> {}, df |-> NoFrame]

\* pd.read_csv: the columns as written, one row per data line
ReadCsv(file) == [index |-> <<>>, columns |-> file.header, rows |-> file.rows]

\* df.columns = [col.lower() for col in df.columns]
LowerColumns(df) ==
    [df EXCEPT
       !.columns = {Lower(c) : c \in df.columns},
       !.rows = [i \in DOMAIN df.rows |->
                   [n \in {Lower(c) : c \in df.columns} |->
                      df.rows[i][CHOOSE c \in df.columns : Lower(c) = n]]]]

RenameColumn(df, from, to) ==
    [df EXCEPT
       !.columns = (df.columns \ {from}) \cup {to},
       !.rows = [i \in DOMAIN df.rows |->
                   [n \in (df.columns \ {from}) \cup {to} |->
                      IF n = to THEN df.rows[i][from] ELSE df.rows[i][n]]]]

\* NormalizeSymbol without the "symbol not in df.columns" test
NormalizeSymbol_Always(df) ==
    IF "ticker" \in df.columns
    THEN RenameColumn(df, "ticker", "symbol")
    ELSE df

\* if 'ticker' in df.columns and 'symbol' not in df.columns: rename
NormalizeSymbol(df) ==
    IF "ticker" \in df.columns /\ "symbol" \notin df.columns
    THEN RenameColumn(df, "ticker", "symbol")
    ELSE df

\* df['timestamp'] = pd.to_datetime(df['timestamp'], format='ISO8601', utc=True)
ParseTimestamps(df) ==
    [df EXCEPT !.rows = [i \in DOMAIN df.rows |->
        [df.rows[i] EXCEPT !["timestamp"] = ToDatetime(df.rows[i]["timestamp"])]]]

\* df[col] = pd.to_numeric(df[col], errors='coerce')
CoerceColumn(df, col) ==
    [df EXCEPT !.rows = [i \in DOMAIN df.rows |->
        [df.rows[i] EXCEPT ![col] = ToNumeric(df.rows[i][col])]]]

\* for col in ['open', 'high', 'low', 'close', 'volume']: ..., over the first
\* k columns of the list
RECURSIVE CoerceNumeric(_, _)
CoerceNumeric(df, k) ==
    IF k = 0 THEN df
    ELSE CoerceColumn(CoerceNumeric(df, k - 1), numeric_cols[k])

\* isna() of one cell of a critical column
IsNa(col, v) ==
    IF col = "symbol" THEN v = Blank
    ELSE IF col = "timestamp" THEN v = NaT
    ELSE v = NaN

\* MissingData with the isna() test run over the OHLCV columns only
MissingData_NumericOnly(df) ==
    Cardinality({ <<i, col>> \in (DOMAIN df.rows) \X Range(numeric_cols) :
                    IsNa(col, df.rows[i][col]) })

\* df[critical_cols].isna().sum().sum()
MissingData(df) ==
    Cardinality({ <<i, col>> \in (DOMAIN df.rows) \X Range(critical_cols) :
                    IsNa(col, df.rows[i][col]) })

Key(row) == <<row["timestamp"], row["symbol"]>>

\* Duplicated without subset=: rows that repeat an earlier row in every column
Duplicated_WholeRow(df) ==
    Cardinality({ i \in DOMAIN df.rows :
                    \E j \in 1..(i - 1) : df.rows[j] = df.rows[i] })

\* Duplicated comparing each row with the row just before it only
Duplicated_Adjacent(df) ==
    Cardinality({ i \in DOMAIN df.rows :
                    i > 1 /\ Key(df.rows[i - 1]) = Key(df.rows[i]) })

\* Duplicated with keep=False: every row whose key occurs more than once
Duplicated_KeepFalse(df) ==
    Cardinality({ i \in DOMAIN df.rows :
                    \E j \in DOMAIN df.rows : j # i /\ Key(df.rows[j]) = Key(df.rows[i]) })

\* df.duplicated(subset=['timestamp', 'symbol']).sum(): rows that repeat the
\* key of an earlier row
Duplicated(df) ==
    Cardinality({ i \in DOMAIN df.rows :
                    \E j \in 1..(i - 1) : Key(df.rows[j]) = Key(df.rows[i]) })

KeyLess(a, b) ==
    \/ a[1] < b[1]
    \/ a[1] = b[1] /\ SymbolOrd(a[2]) < SymbolOrd(b[2])

\* insert row r into the sorted sequence s, after the rows that are not larger
RECURSIVE InsertSorted(_, _)
InsertSorted(s, r) ==
    IF s = <<>> THEN <<r>>
    ELSE IF KeyLess(Key(r), Key(Head(s))) THEN <<r>> \o s
    ELSE <<Head(s)>> \o InsertSorted(Tail(s), r)

RECURSIVE SortRows(_)
SortRows(rows) ==
    IF rows = <<>> THEN <<>>
    ELSE InsertSorted(SortRows(SubSeq(rows, 1, Len(rows) - 1)), rows[Len(rows)])

\* SetIndexSorted keeping only the first row of each timestamp
SetIndexSorted_FirstPerTimestamp(df) ==
    [index |-> <<"timestamp", "symbol">>,
     columns |-> df.columns \ {"timestamp", "symbol"},
     rows |-> SortRows(SelectSeq(df.rows,
                LAMBDA r : r = df.rows[CHOOSE i \in DOMAIN df.rows :
                               /\ df.rows[i]["timestamp"] = r["timestamp"]
                               /\ \A j \in 1..(i - 1) :
                                    df.rows[j]["timestamp"] # r["timestamp"]]))]

\* SetIndexSorted without the sort_index() call
SetIndexSorted_Unsorted(df) ==
    [index |-> <<"timestamp", "symbol">>,
     columns |-> df.columns \ {"timestamp", "symbol"},
     rows |-> df.rows]

\* df.set_index(['timestamp', 'symbol']).sort_index()
SetIndexSorted(df) ==
    [index |-> <<"timestamp", "symbol">>,
     columns |-> df.columns \ {"timestamp", "symbol"},
     rows |-> SortRows(df.rows)]

\* set(required_tickers_df['symbol'].unique())
RequiredTickers(tickers) == {tickers.rows[i].symbol : i \in DOMAIN tickers.rows}

\* set(critical_cols) - set(df.columns)
MissingCols(df) == Range(critical_cols) \ df.columns

\* MissingTickers as a symmetric difference
MissingTickers_Symmetric(required, df) ==
    LET loaded == {df.rows[i]["symbol"] : i \in DOMAIN df.rows}
    IN  (required \ loaded) \cup (loaded \ required)

\* required_tickers - set(df['symbol'].unique())
MissingTickers(required, df) ==
    required \ {df.rows[i]["symbol"] : i \in DOMAIN df.rows}

load_validate_data(market, tickers) ==
    LET required_tickers == RequiredTickers(tickers)
        named == NormalizeSymbol(LowerColumns(ReadCsv(market)))
        stamped == ParseTimestamps(named)
        absent_numeric == {k \in DOMAIN numeric_cols : numeric_cols[k] \notin named.columns}
        df == CoerceNumeric(stamped, Len(numeric_cols))
    IN  IF ~ tickers.exists THEN Outcome("FileNotFoundError", MsgNoTickersFile)
        ELSE IF ~ market.exists THEN Outcome("FileNotFoundError", MsgNoMarketFile)
        ELSE IF "timestamp" \notin named.columns THEN Outcome("KeyError", "timestamp")
        ELSE IF \E i \in DOMAIN named.rows : TsRaises(named.rows[i]["timestamp"])
             THEN Outcome("ValueError", MsgTimeData)
        ELSE IF absent_numeric # {}
             THEN Outcome("KeyError",
                          numeric_cols[CHOOSE k \in absent_numeric :
                                         \A l \in absent_numeric : k <= l])
        ELSE IF MissingCols(df) # {}
             THEN [Outcome("ValueError", MsgColumns) EXCEPT
                     !.missing_cols = MissingCols(df)]
        ELSE IF MissingData(df) > 0
             THEN [Outcome("ValueError", MsgMissingData) EXCEPT
                     !.missing_data = MissingData(df)]
        ELSE IF Duplicated(df) > 0
             THEN [Outcome("ValueError", MsgDuplicates) EXCEPT
                     !.duplicates = Duplicated(df)]
        ELSE IF MissingTickers(required_tickers, df) # {}
             THEN [Outcome("ValueError", MsgTickers) EXCEPT
                     !.missing_tickers = MissingTickers(required_tickers, df)]
        ELSE [Outcome("none", "") EXCEPT !.df = SetIndexSorted(df)]

----------------------------------------------------------------------------
(* sqlite_storage.create_and_populate_db *)

NoDb == [exists |-> FALSE, tables |-> FALSE, tickers |-> <<>>, prices |-> <<>>]

\* sqlite3.connect(db_path): the file is created if it does not exist
Connect(d) == [d EXCEPT !.exists = TRUE]

\* cursor.executescript(schema_sql): both tables are dropped and recreated empty
ExecuteSchema(d) == [d EXCEPT !.tables = TRUE, !.tickers = <<>>, !.prices = <<>>]

\* DataFrame.to_sql(name, conn, if_exists='replace', index=False)
ToSqlReplace(d, rows) == [d EXCEPT !.tables = TRUE, !.tickers = rows]

\* TickerMap giving the position of the row in place of its ticker_id
TickerMap_Position(tickers, sym) ==
    LET hits == {i \in DOMAIN tickers : tickers[i].symbol = sym}
    IN  IF hits = {} THEN Null
        ELSE CHOOSE i \in hits : \A j \in hits : j <= i

\* dict(zip(ticker_map_df['symbol'], ticker_map_df['ticker_id'])) looked up by
\* Series.map: the last row of a symbol wins, an unmapped symbol gives NaN
TickerMap(tickers, sym) ==
    LET hits == {i \in DOMAIN tickers : tickers[i].symbol = sym}
    IN  IF hits = {} THEN Null
        ELSE tickers[CHOOSE i \in hits : \A j \in hits : j <= i].ticker_id

\* one row of prices_to_insert
PriceRow(tickers, row) ==
    [timestamp |-> TsToStr(row["timestamp"]),
     ticker_id |-> TickerMap(tickers, row["symbol"]),
     open |-> row["open"], high |-> row["high"], low |-> row["low"],
     close |-> row["close"], volume |-> row["volume"]]

\* PricesToInsert with the rows of unmapped symbols dropped
PricesToInsert_DropUnmapped(tickers, data_df) ==
    SelectSeq([i \in DOMAIN data_df.rows |-> PriceRow(tickers, data_df.rows[i])],
              LAMBDA r : r.ticker_id # Null)

PricesToInsert(tickers, data_df) ==
    [i \in DOMAIN data_df.rows |-> PriceRow(tickers, data_df.rows[i])]

\* DataFrame.to_sql('prices', conn, if_exists='append', index=False)
ToSqlAppend(d, rows) == [d EXCEPT !.prices = d.prices \o rows]

create_and_populate_db(d, schema, data_df, tickers) ==
    LET connected == Connect(d)
        created == ExecuteSchema(connected)
        registered == ToSqlReplace(created, tickers.rows)
        populated == ToSqlAppend(registered, PricesToInsert(registered.tickers, data_df))
    IN  IF ~ tickers.exists
        THEN [exc |-> "FileNotFoundError", msg |-> MsgNoTickersFile, db |-> d]
        ELSE IF ~ schema
        THEN [exc |-> "FileNotFoundError",
              msg |-> "[Errno 2] No such file or directory: 'schema.sql'",
              db |-> connected]
        ELSE [exc |-> "none", msg |-> "", db |-> populated]

----------------------------------------------------------------------------
(* parquet_storage.save_to_parquet *)

NoDir == [exists |-> FALSE, parts |-> {}]

\* shutil.rmtree(path) when the path exists
RemoveTree(dir) == NoDir

DropColumn(row, col) == [c \in (DOMAIN row) \ {col} |-> row[c]]

RECURSIVE SelectRows(_, _)
SelectRows(rows, sym) ==
    IF rows = <<>> THEN <<>>
    ELSE IF Head(rows)["symbol"] = sym
         THEN <<DropColumn(Head(rows), "symbol")>> \o SelectRows(Tail(rows), sym)
         ELSE SelectRows(Tail(rows), sym)

\* the rows stored under the directory symbol=sym
Partition(dir, sym) ==
    IF \E p \in dir.parts : p.symbol = sym
    THEN (CHOOSE p \in dir.parts : p.symbol = sym).rows
    ELSE <<>>

\* DataFrame.to_parquet(path, partition_cols=['symbol'], index=False): files
\* are added under path, one directory per symbol, next to what is there
ToParquet(dir, rows) ==
    LET syms == {rows[i]["symbol"] : i \in DOMAIN rows}
                  \cup {p.symbol : p \in dir.parts}
    IN  [exists |-> TRUE,
         parts |-> {[symbol |-> s,
                     rows |-> Partition(dir, s) \o SelectRows(rows, s)] : s \in syms}]

\* save_to_parquet without the removal of an existing directory
save_to_parquet_NoRemove(data_df, dir) ==
    ToParquet(dir, data_df.rows)

save_to_parquet(data_df, dir) ==
    ToParquet(IF dir.exists THEN RemoveTree(dir) ELSE dir, data_df.rows)

\* pd.read_parquet(path, engine='pyarrow', filters=[('symbol', '==', sym)]):
\* the rows under symbol=sym, the symbol column rebuilt from the directory name
ReadParquet(dir, sym) ==
    [k \in DOMAIN Partition(dir, sym) |->
       [c \in (DOMAIN Partition(dir, sym)[k]) \cup {"symbol"} |->
          IF c = "symbol" THEN sym ELSE Partition(dir, sym)[k][c]]]

----------------------------------------------------------------------------
(* The drivers *)

NoRet == Outcome("none", "")

Caught(exc, handled) == exc \in handled

\* data_loader.py __main__: load, then print the head and the info of the
\* frame; FileNotFoundError and ValueError are caught and reported
LoaderMain ==
    /\ driver = "data_loader"
    /\ pc = "start"
    /\ ret' = load_validate_data(market_file, tickers_file)
    /\ pc' = IF ret'.exc = "none" THEN "done"
             ELSE IF Caught(ret'.exc, {"FileNotFoundError", "ValueError"}) THEN "failed"
             ELSE "crashed"
    /\ out' = IF ret'.exc = "none" THEN <<"Cleaned Data Sample">>
              ELSE IF pc' = "failed" THEN <<"Process failed", ret'.msg>>
              ELSE <<"Traceback", ret'.exc, ret'.msg>>
    /\ UNCHANGED <<driver, market_file, tickers_file, schema_file, db, parquet_dir, runs>>

\* MainLoad with the failure reported and the script carrying on
MainLoad_Continues ==
    /\ driver \in {"sqlite", "parquet"}
    /\ pc = "start"
    /\ ret' = load_validate_data(market_file, tickers_file)
    /\ pc' = "loaded"
    /\ out' = IF ret'.exc = "none" THEN <<"Data Ingestion Complete">>
              ELSE <<"Process failed", ret'.msg>>
    /\ UNCHANGED <<driver, market_file, tickers_file, schema_file, db, parquet_dir, runs>>

\* sqlite_storage.py / parquet_storage.py __main__, step 1
MainLoad ==
    /\ driver \in {"sqlite", "parquet"}
    /\ pc = "start"
    /\ ret' = load_validate_data(market_file, tickers_file)
    /\ pc' = IF ret'.exc = "none" THEN "loaded"
             ELSE IF Caught(ret'.exc, {"FileNotFoundError", "ValueError"}) THEN "failed"
             ELSE "crashed"
    /\ out' = IF ret'.exc = "none" THEN <<"Data Ingestion Complete">>
              ELSE IF pc' = "failed" THEN <<"Process failed", ret'.msg>>
              ELSE <<"Traceback", ret'.exc, ret'.msg>>
    /\ UNCHANGED <<driver, market_file, tickers_file, schema_file, db, parquet_dir, runs>>

\* sqlite_storage.py __main__, step 2
MainCreateDb ==
    /\ driver = "sqlite"
    /\ pc = "loaded"
    /\ LET r == create_and_populate_db(db, schema_file, ret.df, tickers_file)
       IN  /\ db' = r.db
           /\ pc' = IF r.exc = "none" THEN "persisted" ELSE "failed"
           /\ out' = IF r.exc = "none" THEN <<"Database created and populated">>
                     ELSE <<"Process failed", r.msg>>
    /\ UNCHANGED <<driver, market_file, tickers_file, schema_file, ret, parquet_dir, runs>>

\* sqlite_storage.py __main__, step 3: run_sqlite_queries only reads
MainSqliteQueries ==
    /\ driver = "sqlite"
    /\ pc = "persisted"
    /\ pc' = "done"
    /\ out' = <<"Running SQLite Queries">>
    /\ UNCHANGED <<driver, market_file, tickers_file, schema_file, ret, db, parquet_dir, runs>>

\* parquet_storage.py __main__, step 2
MainSaveParquet ==
    /\ driver = "parquet"
    /\ pc = "loaded"
    /\ parquet_dir' = save_to_parquet(ret.df, parquet_dir)
    /\ pc' = "persisted"
    /\ out' = <<"Successfully saved data to partitioned Parquet">>
    /\ UNCHANGED <<driver, market_file, tickers_file, schema_file, ret, db, runs>>

\* parquet_storage.py __main__, step 3: run_parquet_queries only reads
MainParquetQueries ==
    /\ driver = "parquet"
    /\ pc = "persisted"
    /\ pc' = "queried"
    /\ out' = <<"Running Parquet Queries">>
    /\ UNCHANGED <<driver, market_file, tickers_file, schema_file, ret, db, parquet_dir, runs>>

\* parquet_storage.py __main__, step 4: run_comparison reads the size of the
\* database file, which must exist
MainComparison ==
    /\ driver = "parquet"
    /\ pc = "queried"
    /\ pc' = IF db.exists THEN "done" ELSE "failed"
    /\ out' = IF db.exists THEN <<"Format Comparison">>
              ELSE <<"Process failed", "[Errno 2] No such file or directory: 'market_data.db'">>
    /\ UNCHANGED <<driver, market_file, tickers_file, schema_file, ret, db, parquet_dir, runs>>

\* the script is started again on the same files
Rerun ==
    /\ pc \in {"done", "failed", "crashed"}
    /\ runs < MaxRuns
    /\ runs' = runs + 1
    /\ pc' = "start"
    /\ ret' = NoRet
    /\ out' = <<>>
    /\ UNCHANGED <<driver, market_file, tickers_file, schema_file, db, parquet_dir>>

----------------------------------------------------------------------------
(* Specifications *)

\* what an earlier run on other files left behind
OldDb ==
    [exists |-> TRUE, tables |-> TRUE,
     tickers |-> <<RegRow(7, "TSLA")>>,
     prices |-> <<[timestamp |-> "2025-11-14 09:30:00+00:00", ticker_id |-> 7,
                   open |-> 40000, high |-> 40100, low |-> 39900,
                   close |-> 40050, volume |-> 90000]>>]

OldDir ==
    [exists |-> TRUE,
     parts |-> {[symbol |-> s,
                 rows |-> <<[timestamp |-> 569, open |-> 40000, high |-> 40100,
                             low |-> 39900, close |-> 40050, volume |-> 90000]>>] :
                  s \in {"AAPL", "TSLA"}}]

StorageBars ==
    { Bar(T931Z, "AAPL", "271.12", "1500"),
      Bar(T930Z, "AAPL", "270.88", "1416"),
      Bar(T930Z, "MSFT", "270.88", "1500"),
      Bar(T930Z, "AAPL", Blank, "1416") }

StorageMarketFiles ==
    {NoMarketFile}
      \cup FilesOver({HFixture, HBoth}, StorageBars, MaxRows)
      \cup FilesOver({HLower \ {"symbol"}, HLower \ {"open"}},
                     {Bar(T930Z, "AAPL", "270.88", "1416")}, MaxRowsPartial)

\* the registry files of the storage runs: one more, with a symbol listed twice
StorageTickerFiles ==
    TickerFiles \cup {TickersCsv(<<RegRow(1, "AAPL"), RegRow(4, "AAPL")>>)}

\* data_loader.py run as a script on any of the modelled files
InitLoader ==
    /\ driver = "data_loader"
    /\ market_file \in MarketFiles
    /\ tickers_file \in TickerFiles
    /\ schema_file = TRUE
    /\ pc = "start"
    /\ ret = NoRet
    /\ db = NoDb
    /\ parquet_dir = NoDir
    /\ out = <<>>
    /\ runs = 1

NextLoader == LoaderMain

SpecLoader == InitLoader /\ [][NextLoader]_vars

\* one of the two storage scripts, run up to MaxRuns times
Init ==
    /\ driver \in {"sqlite", "parquet"}
    /\ market_file \in StorageMarketFiles
    /\ tickers_file \in StorageTickerFiles
    /\ schema_file \in (IF driver = "sqlite" THEN BOOLEAN ELSE {TRUE})
    /\ pc = "start"
    /\ ret = NoRet
    /\ \E prior \in {<<NoDb, NoDir>>, <<OldDb, OldDir>>, <<OldDb, NoDir>>} :
          db = prior[1] /\ parquet_dir = prior[2]
    /\ out = <<>>
    /\ runs = 1

Next ==
    \/ MainLoad
    \/ MainCreateDb
    \/ MainSqliteQueries
    \/ MainSaveParquet
    \/ MainParquetQueries
    \/ MainComparison
    \/ Rerun

Spec == Init /\ [][Next]_vars

----------------------------------------------------------------------------
(* The input as the properties read it, taken from the files themselves *)

Called == pc # "start"

FilesExist == market_file.exists /\ tickers_file.exists

\* the name a column of the file goes by after lowercasing and the rename
NameOf(c) ==
    IF Lower(c) = "ticker" /\ ~ \E d \in market_file.header : Lower(d) = "symbol"
    THEN "symbol"
    ELSE Lower(c)

HasCol(n) == \E c \in market_file.header : NameOf(c) = n

InCell(j, n) == market_file.rows[j][CHOOSE c \in market_file.header : NameOf(c) = n]

InRows == DOMAIN market_file.rows

AbsentCols == {n \in Range(critical_cols) : ~ HasCol(n)}

TsParse == HasCol("timestamp") => \A j \in InRows : ~ TsRaises(InCell(j, "timestamp"))

\* the cell is blank, or is a numeric cell that does not parse
CellMissing(j, n) ==
    IF n \in {"timestamp", "symbol"} THEN InCell(j, n) = Blank
    ELSE ToNumeric(InCell(j, n)) = NaN

HasMissing == \E j \in InRows : \E n \in Range(critical_cols) : HasCol(n) /\ CellMissing(j, n)

InKey(j) == <<ToDatetime(InCell(j, "timestamp")), InCell(j, "symbol")>>

HasDupKey ==
    /\ HasCol("timestamp") /\ HasCol("symbol")
    /\ \E i, j \in InRows : i < j /\ InKey(i) = InKey(j)

DupCount == Len(market_file.rows) - Cardinality({InKey(j) : j \in InRows})

RegistrySymbols == {tickers_file.rows[i].symbol : i \in DOMAIN tickers_file.rows}

DataSymbols == IF HasCol("symbol") THEN {InCell(j, "symbol") : j \in InRows} ELSE {}

Uncovered == RegistrySymbols \ DataSymbols

Pass1 == FilesExist /\ AbsentCols = {}
Pass2 == Pass1 /\ TsParse /\ ~ HasMissing
Pass3 == Pass2 /\ ~ HasDupKey
Pass4 == Pass3 /\ Uncovered = {}

Returned == Called /\ ret.exc = "none"

Failed(msg) == ret.exc = "ValueError" /\ ret.msg = msg /\ ret.df = NoFrame

\* the row of the returned frame that input row j must have become
Normalized(j) ==
    [n \in {NameOf(c) : c \in market_file.header} |->
       IF n = "timestamp" THEN ToDatetime(InCell(j, n))
       ELSE IF n \in Range(numeric_cols) THEN ToNumeric(InCell(j, n))
       ELSE InCell(j, n)]

OutRows == DOMAIN ret.df.rows

OutKey(i) == <<ret.df.rows[i]["timestamp"], ret.df.rows[i]["symbol"]>>

----------------------------------------------------------------------------
(* Properties of load_validate_data, checked under SpecLoader *)

\* C1: a market file and registry that pass all four gates give a frame with
\* as many rows as the file has data rows, holding exactly the bars of the
\* file, with no missing critical value and no two rows with the same
\* (timestamp, symbol) key.
C1_ValidInputReturnsSameBars ==
    (Called /\ Pass4) =>
        /\ ret.exc = "none"
        /\ Len(ret.df.rows) = Len(market_file.rows)
        /\ \A j \in InRows :
             Cardinality({i \in OutRows : ret.df.rows[i] = Normalized(j)})
               = Cardinality({k \in InRows : Normalized(k) = Normalized(j)})
        /\ \A i \in OutRows : \E j \in InRows : ret.df.rows[i] = Normalized(j)
        /\ \A i \in OutRows :
             /\ ret.df.rows[i]["timestamp"] # NaT
             /\ ret.df.rows[i]["symbol"] # Blank
             /\ \A k \in DOMAIN numeric_cols : ret.df.rows[i][numeric_cols[k]] # NaN
        /\ \A i, k \in OutRows : i # k => OutKey(i) # OutKey(k)

C1_Witness ==
    /\ Called /\ Pass4
    /\ Len(market_file.rows) = 3
    /\ \E j \in InRows : InCell(j, "timestamp") = T930P
    /\ DataSymbols = {"AAPL", "MSFT"}

\* C2 as stated: whenever two or more gates are violated, the error is that
\* of the earliest violated gate and nothing of a later gate is reported.
GateColumns == AbsentCols # {}
GateValues == HasMissing
GateKeys == HasDupKey
GateCoverage == Uncovered # {}

GatesViolated ==
    Cardinality({g \in {"columns", "values", "keys", "coverage"} :
        \/ g = "columns" /\ GateColumns
        \/ g = "values" /\ GateValues
        \/ g = "keys" /\ GateKeys
        \/ g = "coverage" /\ GateCoverage})

C2_FirstViolatedGateReported ==
    (Called /\ FilesExist /\ TsParse /\ GatesViolated >= 2) =>
        IF GateColumns
        THEN Failed(MsgColumns) /\ ret.missing_data = 0 /\ ret.duplicates = 0
               /\ ret.missing_tickers = {}
        ELSE IF GateValues
        THEN Failed(MsgMissingData) /\ ret.duplicates = 0 /\ ret.missing_tickers = {}
        ELSE Failed(MsgDuplicates) /\ ret.missing_tickers = {}

\* C3 as stated: any absent critical column gives the column-missing error,
\* which names exactly the absent columns.
C3_AbsentColumnsReported ==
    (Called /\ FilesExist /\ AbsentCols # {}) =>
        Failed(MsgColumns) /\ ret.missing_cols = AbsentCols

\* C4 as stated: with all seven columns present, any blank critical cell or
\* unparseable numeric cell gives the missing-data error and no frame.
C4_MissingValueAlwaysMissingData ==
    (Called /\ Pass1 /\ HasMissing) => Failed(MsgMissingData)

\* C4 amended: with all seven columns present and every non-blank timestamp
\* cell parseable, any blank critical cell or unparseable numeric cell gives
\* the missing-data error and no frame; when some timestamp cell does not
\* parse the call fails with the parser's error instead, again with no frame.
C4_MissingValueAfterParse ==
    (Called /\ Pass1 /\ HasMissing) =>
        IF TsParse THEN Failed(MsgMissingData) /\ ret.missing_data > 0
        ELSE Failed(MsgTimeData)

C4_Witness ==
    /\ Called /\ Pass1 /\ TsParse
    /\ \E j \in InRows : InCell(j, "volume") = "n/a"
    /\ \E j \in InRows : InCell(j, "timestamp") = Blank
    /\ Failed(MsgMissingData)

\* C5: a file that passes column and value completeness fails with the
\* duplicate-data error exactly when two rows share a (timestamp, symbol)
\* key, and the reported count is the number of rows that repeat the key of
\* an earlier row.
C5_DuplicateKeysCounted ==
    (Called /\ Pass2) =>
        /\ Failed(MsgDuplicates) <=> HasDupKey
        /\ HasDupKey => ret.duplicates = DupCount
        /\ ~ HasDupKey => ret.duplicates = 0

C5_Witness ==
    /\ Called /\ Pass2
    /\ Failed(MsgDuplicates)
    /\ ret.duplicates = 2
    /\ \E j \in InRows : InCell(j, "timestamp") = T930P
    /\ \E j \in InRows : InCell(j, "timestamp") = T930Z

\* C6: a file that passes the first three gates fails with the
\* missing-tickers error exactly when a registry symbol does not occur in
\* the data, the error names exactly those symbols, and data symbols outside
\* the registry never cause a failure.
C6_RegistryCoverage ==
    (Called /\ Pass3) =>
        /\ Failed(MsgTickers) <=> Uncovered # {}
        /\ ret.missing_tickers = Uncovered
        /\ Uncovered = {} => ret.exc = "none"

C6_Witness ==
    /\ Called /\ Pass3
    /\ Failed(MsgTickers)
    /\ ret.missing_tickers = {"TSLA"}
    /\ "MSFT" \in DataSymbols

\* C7: the identifier level of the returned key is named symbol, never
\* ticker: a ticker column without a symbol column is renamed and becomes
\* the key level; with both present the symbol column is the key level and
\* the ticker column stays an ordinary data column with its cells unchanged.
TickerCols == {c \in market_file.header : Lower(c) = "ticker"}
SymbolCols == {c \in market_file.header : Lower(c) = "symbol"}

C7_KeyLevelIsSymbol ==
    Returned =>
        /\ ret.df.index = <<"timestamp", "symbol">>
        /\ "symbol" \notin ret.df.columns
        /\ (TickerCols # {} /\ SymbolCols = {}) =>
             /\ "ticker" \notin ret.df.columns
             /\ \A i \in OutRows : "ticker" \notin DOMAIN ret.df.rows[i]
             /\ {ret.df.rows[i]["symbol"] : i \in OutRows}
                  = {market_file.rows[j][c] : j \in InRows, c \in TickerCols}
        /\ (TickerCols # {} /\ SymbolCols # {}) =>
             /\ "ticker" \in ret.df.columns
             /\ {ret.df.rows[i]["symbol"] : i \in OutRows}
                  = {market_file.rows[j][c] : j \in InRows, c \in SymbolCols}
             /\ {ret.df.rows[i]["ticker"] : i \in OutRows}
                  = {market_file.rows[j][c] : j \in InRows, c \in TickerCols}

C7_Witness ==
    /\ Returned
    /\ market_file.header = HFixture
    /\ {ret.df.rows[i]["symbol"] : i \in OutRows} = {"AAPL", "MSFT"}

C7_WitnessBoth ==
    /\ Returned
    /\ market_file.header = HBoth
    /\ Len(ret.df.rows) >= 2

\* C8: the returned rows are strictly ordered by (timestamp, symbol): each
\* row has a smaller timestamp than the next, or the same timestamp and a
\* strictly smaller symbol, whatever the order of the rows in the file.
C8_RowsStrictlyOrdered ==
    Returned =>
        \A i \in OutRows : i < Len(ret.df.rows) =>
            \/ ret.df.rows[i]["timestamp"] < ret.df.rows[i + 1]["timestamp"]
            \/ /\ ret.df.rows[i]["timestamp"] = ret.df.rows[i + 1]["timestamp"]
               /\ SymbolOrd(ret.df.rows[i]["symbol"]) < SymbolOrd(ret.df.rows[i + 1]["symbol"])

C8_Witness ==
    /\ Returned
    /\ Len(market_file.rows) = 3
    /\ InCell(1, "timestamp") = T931Z /\ InCell(1, "symbol") = "AAPL"
    /\ InCell(2, "timestamp") = T930Z /\ InCell(2, "symbol") = "MSFT"
    /\ InCell(3, "timestamp") = T930P /\ InCell(3, "symbol") = "AAPL"

----------------------------------------------------------------------------
(* Properties of the storage drivers, checked under Spec *)

LoadFailed(r) == r.exc \in {"ValueError", "FileNotFoundError"}

\* C9: when load_validate_data fails with a validation error or a
\* file-not-found error, the driver reports the failure and ends with the
\* database file and the partitioned directory exactly as they were; no
\* persistence or query step follows, the only step left being a new start
\* of the script.
C9_FailedLoadLeavesStoresUntouched ==
    [][ /\ (pc = "start" /\ LoadFailed(ret')) =>
             /\ pc' = "failed"
             /\ out' = <<"Process failed", ret'.msg>>
             /\ db' = db
             /\ parquet_dir' = parquet_dir
        /\ LoadFailed(ret) =>
             /\ pc = "failed" /\ pc' = "start"
             /\ db' = db
             /\ parquet_dir' = parquet_dir ]_vars

C9_Witness ==
    /\ pc = "failed"
    /\ ret.exc = "ValueError" /\ ret.msg = MsgDuplicates
    /\ runs = 2
    /\ db = OldDb
    /\ parquet_dir = OldDir

\* C10: whatever the database file held before, after a successful
\* create_and_populate_db the tickers table holds exactly the rows of the
\* registry file and the prices table exactly one row per row of the
\* validated frame, in its order; a second run on the same files leaves the
\* same contents as the first.
C10_DestructiveRebuild ==
    (driver = "sqlite" /\ pc \in {"persisted", "done"}) =>
        /\ db.exists /\ db.tables
        /\ db.tickers = tickers_file.rows
        /\ Len(db.prices) = Len(ret.df.rows)
        /\ \A i \in DOMAIN db.prices :
             /\ db.prices[i].timestamp = TsToStr(ret.df.rows[i]["timestamp"])
             /\ \A k \in DOMAIN numeric_cols :
                  db.prices[i][numeric_cols[k]] = ret.df.rows[i][numeric_cols[k]]

C10_Witness ==
    /\ driver = "sqlite" /\ pc = "persisted"
    /\ runs = 2
    /\ Len(db.prices) = 3
    /\ \E i \in DOMAIN db.prices : db.prices[i].ticker_id = Null

\* the rows of the validated frame whose symbol is s, and the k-th of them
FrameRowsOf(s) == {i \in OutRows : ret.df.rows[i]["symbol"] = s}

NthFrameRowOf(s, k) ==
    CHOOSE i \in FrameRowsOf(s) : Cardinality({j \in FrameRowsOf(s) : j <= i}) = k

Saved ==
    /\ driver = "parquet"
    /\ pc \in {"persisted", "queried", "done", "failed"}
    /\ ret.exc = "none"

\* C11: whatever the directory held before, after save_to_parquet a read
\* filtered on symbol = s returns exactly the rows of the current validated
\* frame whose symbol is s, none from another symbol or an earlier run and
\* none missing, in ascending timestamp order and with the timestamp, open,
\* high, low, close and volume of the source.
C11_ParquetRoundTrip ==
    Saved =>
        \A s \in {"AAPL", "MSFT", "TSLA"} :
            /\ Len(ReadParquet(parquet_dir, s)) = Cardinality(FrameRowsOf(s))
            /\ \A k \in DOMAIN ReadParquet(parquet_dir, s) :
                 /\ ReadParquet(parquet_dir, s)[k]["symbol"] = s
                 /\ \A c \in {"timestamp"} \cup Range(numeric_cols) :
                      ReadParquet(parquet_dir, s)[k][c]
                        = ret.df.rows[NthFrameRowOf(s, k)][c]
                 /\ k > 1 => ReadParquet(parquet_dir, s)[k - 1]["timestamp"]
                               < ReadParquet(parquet_dir, s)[k]["timestamp"]

C11_Witness ==
    /\ Saved /\ pc = "persisted"
    /\ runs = 2
    /\ Len(ReadParquet(parquet_dir, "AAPL")) = 2
    /\ Len(ReadParquet(parquet_dir, "MSFT")) = 1
    /\ market_file.rows[1]["Ticker"] = "MSFT"

\* the ticker_ids the tickers table holds for a symbol
HeldIds(sym) ==
    {db.tickers[k].ticker_id : k \in {n \in DOMAIN db.tickers : db.tickers[n].symbol = sym}}

\* C12: create_and_populate_db appends every row of the validated frame to
\* prices and rejects none; a row's ticker_id is a ticker_id the freshly
\* populated tickers table holds for the row's symbol, and it is null
\* exactly when the tickers table has no row for that symbol.
C12_ForeignKeyMapped ==
    (driver = "sqlite" /\ pc \in {"persisted", "done"}) =>
        /\ Len(db.prices) = Len(ret.df.rows)
        /\ \A i \in DOMAIN db.prices :
             /\ db.prices[i].ticker_id = Null
                  <=> HeldIds(ret.df.rows[i]["symbol"]) = {}
             /\ db.prices[i].ticker_id # Null
                  => db.prices[i].ticker_id \in HeldIds(ret.df.rows[i]["symbol"])

C12_Witness ==
    /\ driver = "sqlite" /\ pc = "persisted"
    /\ runs = 1
    /\ db.tickers = <<RegRow(1, "AAPL")>>
    /\ Len(db.prices) = 3
    /\ {db.prices[i].ticker_id : i \in DOMAIN db.prices} = {1, Null}

----------------------------------------------------------------------------
(* Row order of the market file, checked under SpecLoader *)

\* the file with its first two data rows exchanged
FirstTwoSwapped(file) ==
    IF Len(file.rows) < 2 THEN file
    ELSE [file EXCEPT !.rows = <<file.rows[2], file.rows[1]>>
                                 \o SubSeq(file.rows, 3, Len(file.rows))]

\* the file with its first data row moved to the end
FirstMovedLast(file) ==
    IF Len(file.rows) < 2 THEN file
    ELSE [file EXCEPT !.rows = Tail(file.rows) \o <<Head(file.rows)>>]

SameOutcome(a, b) ==
    /\ a.exc = b.exc
    /\ a.msg = b.msg
    /\ a.duplicates = b.duplicates
    /\ a.df = b.df

\* C13: the outcome of load_validate_data does not depend on the order of
\* the data rows: a file with the same rows in another order, the same
\* columns and the same registry gives the same frame (same rows in the same
\* order) on success, and on failure the same kind of error and the same
\* duplicate count.  Every reordering is a chain of the two moves below, and
\* every file of such a chain is itself one of the files checked, so equal
\* outcomes across both moves at every file give equal outcomes across every
\* reordering.
C13_RowOrderIrrelevant ==
    Called =>
        /\ SameOutcome(ret, load_validate_data(FirstTwoSwapped(market_file), tickers_file))
        /\ SameOutcome(ret, load_validate_data(FirstMovedLast(market_file), tickers_file))

C13_Witness ==
    /\ Called /\ Pass2
    /\ Len(market_file.rows) = 3
    /\ InKey(1) = InKey(3) /\ InKey(1) # InKey(2)
    /\ Failed(MsgDuplicates) /\ ret.duplicates = 1

====
